---- MODULE Spec2Model ----
(***************************************************************************)
(* LZW codec of src/src/mod.ts: compress (trie dictionary + MSB-first bit  *)
(* writer) and decompress (MSB-first bit reader + inverse dictionary).     *)
(* compress and decompress are modelled as sequential programs, one action *)
(* per loop iteration / read position, over the program's own constants    *)
(* (bytes 0..255, CLEAR_CODE 256, EOI_CODE 257, 9-bit initial width).      *)
(***************************************************************************)
EXTENDS Integers, Sequences, FiniteSets, TLC

(* ---------------- program constants ---------------- *)
CLEAR_CODE == 256
EOI_CODE == 257
InitialCodeSize == 9
FirstCode == 258
DefaultMaxBits == 12
NoOldCode == -1

(* ---------------- bounds of the model ---------------- *)
\* largest maxBits argument tried
MaxBitsHi == 16
\* longest input over SmallAlphabet
MaxShortLen == 4
\* longest ramp input 0,1,2,... (mod 256)
MaxRamp == 258
\* most codes after the leading CLEAR_CODE in a hand-made stream for decompress
MaxStream == 3
\* how many bytes may be cut off the end of a compress output
MaxCut == 2

(* ---------------- JS integer operators ---------------- *)
\* a << n on 32-bit integers.  No shift of the program exceeds 23 result bits
\* (bitBuffer holds fewer than codeSize + 8 bits), so the result never wraps;
\* TLC's own integers are 32-bit and it stops with an error on overflow.
Shl(a, n) == a * 2^(n % 32)
\* a >> n for non-negative a
Shr(a, n) == a \div 2^(n % 32)
\* a & ((1 << k) - 1)
AndMask(a, k) == a % (Shl(1, k))
\* a | b where b < 2^k and a is a multiple of 2^k (the only use in the code)
OrLow(a, b) == a + b
Min(a, b) == IF a < b THEN a ELSE b

Byte == 0..255

(* ---------------- BitStreamWriter ---------------- *)
\* buffer, currentByte, bitsFilled are the class's fields; log is a history
\* field recording every write(value, bitCount) call, read only by properties.
NewWriter == [buffer |-> <<>>, currentByte |-> 0, bitsFilled |-> 0, log |-> <<>>]

\* the while loop of write()
RECURSIVE WriteLoop(_, _, _)
WriteLoop(w, value, bitCount) ==
  IF bitCount <= 0 THEN w
  ELSE LET bitsToWrite == Min(bitCount, 8 - w.bitsFilled)
           bits == AndMask(Shr(value, bitCount - bitsToWrite), bitsToWrite)
           cb == OrLow(Shl(w.currentByte, bitsToWrite), bits)
           bf == w.bitsFilled + bitsToWrite
           w2 == IF bf = 8
                 THEN [w EXCEPT !.buffer = Append(w.buffer, cb), !.currentByte = 0, !.bitsFilled = 0]
                 ELSE [w EXCEPT !.currentByte = cb, !.bitsFilled = bf]
       IN WriteLoop(w2, value, bitCount - bitsToWrite)

Write(w, value, bitCount) ==
  [WriteLoop(w, value, bitCount) EXCEPT !.log = Append(w.log, <<value, bitCount>>)]

\* toData: this.write(0, 8 - this.bitsFilled); new Uint8Array(this.buffer)
ToData(w) == LET p == WriteLoop(w, 0, 8 - w.bitsFilled).buffer
             IN [j \in 1..Len(p) |-> p[j] % 256]

(* ---------------- CompressionTable ---------------- *)
\* The trie maps a byte path to the value stored under -1 at its node;
\* get() is undefined for a path with no node or no value.
Undefined == -2
TableGet(t, key) == IF key \in DOMAIN t THEN t[key] ELSE Undefined
TableHas(t, key) == TableGet(t, key) # Undefined
TableSet(t, key, value) == [x \in (DOMAIN t) \cup {key} |-> IF x = key THEN value ELSE t[x]]
\* initializeStringTable: clear, then set([i], i) for i in 0..255
InitialStringTable == [key \in {<<b>> : b \in Byte} |-> key[1]]

(* ---------------- compress ---------------- *)
\* lines 120-123, 141: the locals as declared.  i is the position of the
\* for-of iterator; closed is a history field holding the dictionaries
\* discarded by a reset.
CompressLocals ==
  [table |-> <<>>, bitWriter |-> NewWriter,
   codeSize |-> InitialCodeSize, nextCode |-> FirstCode,
   omega |-> <<>>, i |-> 0, closed |-> <<>>]

\* lines 132-133: initializeStringTable(), then the leading CLEAR_CODE
CompressInit(e) ==
  [e EXCEPT !.table = InitialStringTable,
            !.bitWriter = Write(e.bitWriter, CLEAR_CODE, e.codeSize)]

\* the early exit returning the buffer without toData's padding
CompressEmptyNoPad(e) == Write(e.bitWriter, EOI_CODE, e.codeSize).buffer

\* lines 136-139: the early exit for empty input
CompressEmpty(e) == ToData(Write(e.bitWriter, EOI_CODE, e.codeSize))

\* lines 151-155: the code width after nextCode was incremented to nc
GrowCodeSize(codeSize, nc, mb) ==
  IF nc = Shl(1, codeSize) /\ codeSize < mb THEN codeSize + 1 ELSE codeSize

\* the loop body with the table-full test off by one (nextCode <= 1 << maxBits)
CompressByteLate(e, mb, k) ==
  LET omegaK == Append(e.omega, k) IN
  IF TableHas(e.table, omegaK)
  THEN [e EXCEPT !.omega = omegaK, !.i = @ + 1]
  ELSE LET w1 == Write(e.bitWriter, TableGet(e.table, e.omega), e.codeSize) IN
       IF e.nextCode <= Shl(1, mb)
       THEN [e EXCEPT !.table = TableSet(e.table, omegaK, e.nextCode),
                      !.bitWriter = w1,
                      !.nextCode = e.nextCode + 1,
                      !.codeSize = GrowCodeSize(e.codeSize, e.nextCode + 1, mb),
                      !.omega = <<k>>, !.i = @ + 1]
       ELSE [e EXCEPT !.bitWriter = Write(w1, CLEAR_CODE, e.codeSize),
                      !.table = InitialStringTable,
                      !.codeSize = InitialCodeSize,
                      !.nextCode = FirstCode,
                      !.closed = Append(@, e.table),
                      !.omega = <<k>>, !.i = @ + 1]

\* lines 144-164: one iteration of the for loop, on byte k
CompressByte(e, mb, k) ==
  LET omegaK == Append(e.omega, k) IN
  IF TableHas(e.table, omegaK)
  THEN [e EXCEPT !.omega = omegaK, !.i = @ + 1]
  ELSE LET w1 == Write(e.bitWriter, TableGet(e.table, e.omega), e.codeSize) IN
       IF e.nextCode < Shl(1, mb)
       THEN [e EXCEPT !.table = TableSet(e.table, omegaK, e.nextCode),
                      !.bitWriter = w1,
                      !.nextCode = e.nextCode + 1,
                      !.codeSize = GrowCodeSize(e.codeSize, e.nextCode + 1, mb),
                      !.omega = <<k>>, !.i = @ + 1]
       ELSE [e EXCEPT !.bitWriter = Write(w1, CLEAR_CODE, e.codeSize),
                      !.table = InitialStringTable,
                      !.codeSize = InitialCodeSize,
                      !.nextCode = FirstCode,
                      !.closed = Append(@, e.table),
                      !.omega = <<k>>, !.i = @ + 1]

\* the end of compress forgetting to flush the final match
CompressTailNoFlush(e) ==
  [e EXCEPT !.bitWriter = Write(e.bitWriter, EOI_CODE, e.codeSize)]

\* lines 167-168: the final match and EOI_CODE
CompressTail(e) ==
  [e EXCEPT !.bitWriter =
     Write(Write(e.bitWriter, TableGet(e.table, e.omega), e.codeSize), EOI_CODE, e.codeSize)]

(* ---------------- errors ---------------- *)
NoError == [kind |-> "none", message |-> ""]
LzwError(message) == [kind |-> "LzwError", message |-> message]
\* throw new Error(...) of BitStreamReader.read
PlainError(message) == [kind |-> "Error", message |-> message]
\* the source writes CLEAR_CODE between backquotes, which a TLA+ string cannot hold
MissingClear == "Invalid LZW data: missing CLEAR_CODE at start"
UnexpectedEnd == "Unexpected end of input"
NotFound(code) == "Code " \o ToString(code) \o " not found in dictionary"

(* ---------------- BitStreamReader ---------------- *)
Null == -1
NewReader == [bitBuffer |-> 0, bitsInBuffer |-> 0, byteIndex |-> 0]

\* lines 188-192: load bytes until bitCount bits are buffered or input ends
RECURSIVE ReadLoad(_, _, _)
ReadLoad(r, bytes, bitCount) ==
  IF r.bitsInBuffer < bitCount /\ r.byteIndex < Len(bytes)
  THEN ReadLoad([bitBuffer |-> OrLow(Shl(r.bitBuffer, 8), bytes[r.byteIndex + 1]),
                 bitsInBuffer |-> r.bitsInBuffer + 8,
                 byteIndex |-> r.byteIndex + 1], bytes, bitCount)
  ELSE r

\* read(bitCount): the reader afterwards, the value (Null for null), the error thrown
Read(r, bytes, bitCount) ==
  IF bitCount <= 0 \/ bitCount > 32
  THEN [reader |-> r, value |-> Null, thrown |-> PlainError("Invalid bit count")]
  ELSE LET l == ReadLoad(r, bytes, bitCount) IN
       IF l.bitsInBuffer < bitCount
       THEN [reader |-> l, value |-> Null, thrown |-> NoError]
       ELSE LET left == l.bitsInBuffer - bitCount IN
            [reader |-> [l EXCEPT !.bitsInBuffer = left,
                                  !.bitBuffer = AndMask(l.bitBuffer, left)],
             value |-> AndMask(Shr(l.bitBuffer, left), bitCount),
             thrown |-> NoError]

(* ---------------- decompress ---------------- *)
\* initializeTable: clear, then set(i, [i]) for i in 0..255
InitialTable == [c \in Byte |-> <<c>>]

\* lines 238-243: the locals as declared.  thrown is the exception in flight;
\* reads, epoch and selfResets are history fields (codes read so far,
\* CLEAR_CODEs seen, resets taken inside addStringToTable).
DecompressLocals ==
  [bitReader |-> NewReader, output |-> <<>>,
   codeSize |-> InitialCodeSize, nextCode |-> FirstCode,
   table |-> <<>>, code |-> Null, oldCode |-> NoOldCode,
   thrown |-> NoError, reads |-> 0, epoch |-> 0, selfResets |-> 0]

\* getNextCode taking the end of the input for an EOI_CODE instead of throwing
GetNextCodeLenient(d, bytes) ==
  LET r == Read(d.bitReader, bytes, d.codeSize) IN
  IF r.thrown # NoError THEN [d EXCEPT !.thrown = r.thrown]
  ELSE IF r.value = Null
       THEN [d EXCEPT !.bitReader = r.reader, !.code = EOI_CODE, !.reads = @ + 1]
       ELSE [d EXCEPT !.bitReader = r.reader, !.code = r.value, !.reads = @ + 1]

\* getNextCode, its result assigned to code (lines 279, 291, 308)
GetNextCode(d, bytes) ==
  LET r == Read(d.bitReader, bytes, d.codeSize) IN
  IF r.thrown # NoError THEN [d EXCEPT !.thrown = r.thrown]
  ELSE IF r.value = Null
       THEN [d EXCEPT !.bitReader = r.reader, !.thrown = LzwError(UnexpectedEnd)]
       ELSE [d EXCEPT !.bitReader = r.reader, !.code = r.value, !.reads = @ + 1]

\* the check of the first code accepting every code from CLEAR_CODE up
CheckLeadingClearLoose(d) ==
  IF d.code < CLEAR_CODE THEN [d EXCEPT !.thrown = LzwError(MissingClear)] ELSE d

\* lines 280-282: the check of the first code
CheckLeadingClear(d) ==
  IF d.code # CLEAR_CODE THEN [d EXCEPT !.thrown = LzwError(MissingClear)] ELSE d

\* stringFromCode without its guard: spreading the undefined entry is a TypeError
StringFromCodeUnguarded(table, code) ==
  IF code \notin DOMAIN table
  THEN [thrown |-> [kind |-> "TypeError", message |-> "undefined is not iterable"], value |-> <<>>]
  ELSE [thrown |-> NoError, value |-> table[code]]

\* stringFromCode: the sequence, or the error thrown
StringFromCode(table, code) ==
  IF code \notin DOMAIN table
  THEN [thrown |-> LzwError(NotFound(code)), value |-> <<>>]
  ELSE [thrown |-> NoError, value |-> table[code]]

\* lines 266-269 of addStringToTable: the width after nextCode became nc
DecGrowCodeSize(codeSize, nc, mb) ==
  IF nc = Shl(1, codeSize) - 1 /\ codeSize < mb THEN codeSize + 1 ELSE codeSize

\* addStringToTable
AddStringToTable(d, mb, sequence) ==
  IF d.nextCode < Shl(1, mb)
  THEN [d EXCEPT !.table = [c \in (DOMAIN d.table) \cup {d.nextCode} |->
                              IF c = d.nextCode THEN sequence ELSE d.table[c]],
                 !.nextCode = d.nextCode + 1,
                 !.codeSize = DecGrowCodeSize(d.codeSize, d.nextCode + 1, mb)]
  ELSE [d EXCEPT !.table = InitialTable,
                 !.codeSize = InitialCodeSize,
                 !.nextCode = FirstCode,
                 !.selfResets = @ + 1]

\* lines 288-290: the reset on CLEAR_CODE
DecodeClear(d) ==
  [d EXCEPT !.table = InitialTable, !.codeSize = InitialCodeSize, !.nextCode = FirstCode,
            !.epoch = @ + 1]

\* lines 292-294, after the read of line 291 succeeded with a code other than EOI
DecodeAfterClear(d) ==
  LET s == StringFromCode(d.table, d.code) IN
  IF s.thrown # NoError THEN [d EXCEPT !.thrown = s.thrown]
  ELSE [d EXCEPT !.output = @ \o s.value, !.oldCode = d.code]

\* lines 296-305: a data code
DecodeData(d, mb) ==
  IF d.code \in DOMAIN d.table
  THEN LET s == StringFromCode(d.table, d.code)
           d1 == [d EXCEPT !.output = @ \o s.value]
           so == StringFromCode(d.table, d.oldCode)
       IN IF s.thrown # NoError THEN [d EXCEPT !.thrown = s.thrown]
          ELSE IF so.thrown # NoError THEN [d1 EXCEPT !.thrown = so.thrown]
          ELSE [AddStringToTable(d1, mb, Append(so.value, s.value[1])) EXCEPT !.oldCode = d.code]
  ELSE LET so == StringFromCode(d.table, d.oldCode)
           outString == Append(so.value, so.value[1])
       IN IF so.thrown # NoError THEN [d EXCEPT !.thrown = so.thrown]
          ELSE [AddStringToTable([d EXCEPT !.output = @ \o outString], mb, outString)
                  EXCEPT !.oldCode = d.code]

(* ---------------- inputs ---------------- *)
SmallAlphabet == {65, 66}
RECURSIVE SeqsUpTo(_, _)
SeqsUpTo(S, n) ==
  IF n = 0 THEN {<<>>}
  ELSE LET shorter == SeqsUpTo(S, n - 1)
       IN shorter \cup {Append(q, x) : q \in {t \in shorter : Len(t) = n - 1}, x \in S}

\* the vector of the test suite and of compress's doc comment
KnownVector == <<65, 65, 65, 65, 65, 66, 66, 66>>
Ramp(n) == [j \in 1..n |-> (j - 1) % 256]
\* short ramps, and ramps around the length at which the 9-bit codes run out
RampLens == {n \in 0..MaxRamp : n <= 2 * MaxShortLen \/ n >= Shl(1, InitialCodeSize) - FirstCode - 1}
Inputs == SeqsUpTo(SmallAlphabet, MaxShortLen) \cup {KnownVector} \cup {Ramp(n) : n \in RampLens}
\* the maxBits arguments tried: all of 9..MaxBitsHi on short runs; the two
\* smallest, the default and the largest on long ones
MaxBitsRange == InitialCodeSize..MaxBitsHi
LongRunBits ==
  {m \in MaxBitsRange : m <= InitialCodeSize + 1 \/ m = DefaultMaxBits \/ m = MaxBitsHi}

\* byte buffers that are not compress outputs: short code streams packed at
\* 9 bits, and streams that fill the decoder's table without a CLEAR_CODE
StreamCodes == {65, CLEAR_CODE, EOI_CODE, FirstCode, FirstCode + 2}
\* bit b (from 0) of the codes laid out MSB-first at 9 bits each, 0 past the end
BitAt(codes, b) ==
  IF b \div InitialCodeSize >= Len(codes) THEN 0
  ELSE (codes[b \div InitialCodeSize + 1] \div 2^(InitialCodeSize - 1 - (b % InitialCodeSize))) % 2
Pack(codes) ==
  [j \in 1..((InitialCodeSize * Len(codes) + 7) \div 8) |->
     LET b == 8 * (j - 1) IN
       128 * BitAt(codes, b) + 64 * BitAt(codes, b + 1) + 32 * BitAt(codes, b + 2)
       + 16 * BitAt(codes, b + 3) + 8 * BitAt(codes, b + 4) + 4 * BitAt(codes, b + 5)
       + 2 * BitAt(codes, b + 6) + BitAt(codes, b + 7)]
Filler(n) == [j \in 1..n |-> 65]
FullTableStreams ==
  {<<CLEAR_CODE>> \o Filler(Shl(1, InitialCodeSize) - FirstCode + 1) \o tail :
     tail \in {<<300, 65, EOI_CODE>>, <<65, 66, EOI_CODE>>}}
\* streams with a leading CLEAR_CODE and up to MaxStream further codes; streams
\* with another leading code (rejected at that code) and at most one more
ClearLed == {<<CLEAR_CODE>> \o t : t \in SeqsUpTo(StreamCodes, MaxStream)}
OtherLed == {<<f>> \o t : f \in StreamCodes \ {CLEAR_CODE}, t \in SeqsUpTo(StreamCodes, 1)}
Streams == {Pack(c) : c \in {<<>>} \cup ClearLed \cup OtherLed \cup FullTableStreams}

Prefix(bytes, n) == SubSeq(bytes, 1, n)
\* every prefix of a short buffer; of a long one, those that drop at most MaxCut bytes
Cuts(bytes) ==
  {Prefix(bytes, n) : n \in {m \in 0..Len(bytes) : Len(bytes) <= 4 * MaxCut \/ m >= Len(bytes) - MaxCut}}

(* ---------------- the program ---------------- *)
NoValue == <<Null>>
NoResult == [kind |-> "none", message |-> "", value |-> NoValue]
Returned(bytes) == [kind |-> "returned", message |-> "", value |-> bytes]
Threw(err) == [kind |-> err.kind, message |-> err.message, value |-> NoValue]

VARIABLES
  pc,          \* position in compress / decompress
  mode,        \* "roundtrip": compress, then decompress a prefix of its output;
               \* "stream": decompress an arbitrary buffer
  maxBits,     \* the maxBits argument of both calls
  data,        \* compress's data argument
  enc,         \* compress's locals
  compressed,  \* compress's return value
  input,       \* decompress's data argument
  dec,         \* decompress's locals
  result       \* how decompress ended

vars == <<pc, mode, maxBits, data, enc, compressed, input, dec, result>>

Init ==
  /\ maxBits \in MaxBitsRange
  /\ enc = CompressLocals
  /\ dec = DecompressLocals
  /\ compressed = <<>>
  /\ result = NoResult
  /\ \/ mode = "roundtrip" /\ pc = "compress" /\ data \in Inputs /\ input = <<>>
        /\ (Len(data) <= 2 * MaxShortLen \/ maxBits \in LongRunBits)
     \/ mode = "stream" /\ pc = "decompress" /\ data = <<>>
        /\ input \in UNION {Cuts(b) : b \in Streams}
        /\ (Len(input) <= 4 * MaxCut \/ maxBits \in LongRunBits)

\* compress, lines 120-139
CompressStart ==
  /\ pc = "compress"
  /\ LET e == CompressInit(enc) IN
     IF Len(data) = 0
     THEN /\ enc' = [e EXCEPT !.bitWriter = Write(e.bitWriter, EOI_CODE, e.codeSize)]
          /\ compressed' = CompressEmpty(e)
          /\ pc' = "compress_returned"
     ELSE /\ enc' = e
          /\ compressed' = compressed
          /\ pc' = "compress_loop"
  /\ UNCHANGED <<mode, maxBits, data, input, dec, result>>

\* compress, lines 143-165: one iteration of the for loop
CompressStep ==
  /\ pc = "compress_loop"
  /\ enc.i < Len(data)
  /\ enc' = CompressByte(enc, maxBits, data[enc.i + 1])
  /\ UNCHANGED <<pc, mode, maxBits, data, compressed, input, dec, result>>

\* compress, lines 167-170
CompressFinish ==
  /\ pc = "compress_loop"
  /\ enc.i = Len(data)
  /\ enc' = CompressTail(enc)
  /\ compressed' = ToData(enc'.bitWriter)
  /\ pc' = "compress_returned"
  /\ UNCHANGED <<mode, maxBits, data, input, dec, result>>

\* the caller hands compress's output, whole or cut short, to decompress
Handoff ==
  /\ pc = "compress_returned"
  /\ input' \in Cuts(compressed)
  /\ pc' = "decompress"
  /\ UNCHANGED <<mode, maxBits, data, enc, compressed, dec, result>>

\* decompress, line 277
DecompressStart ==
  /\ pc = "decompress"
  /\ dec' = [dec EXCEPT !.table = InitialTable]
  /\ pc' = "read_first"
  /\ UNCHANGED <<mode, maxBits, data, enc, compressed, input, result>>

\* decompress, lines 279-284
ReadFirst ==
  /\ pc = "read_first"
  /\ LET d == GetNextCode(dec, input)
         d2 == IF d.thrown # NoError THEN d ELSE CheckLeadingClear(d)
     IN /\ dec' = d2
        /\ IF d2.thrown # NoError
           THEN pc' = "done" /\ result' = Threw(d2.thrown)
           ELSE pc' = "loop" /\ result' = result
  /\ UNCHANGED <<mode, maxBits, data, enc, compressed, input>>

\* decompress, lines 286-290, 296-305 and 311: the loop test and the branch taken
LoopStep ==
  /\ pc = "loop"
  /\ IF dec.code = EOI_CODE
     THEN dec' = dec /\ pc' = "done" /\ result' = Returned(dec.output)
     ELSE IF dec.code = CLEAR_CODE
     THEN dec' = DecodeClear(dec) /\ pc' = "read_after_clear" /\ result' = result
     ELSE LET d == DecodeData(dec, maxBits) IN
          /\ dec' = d
          /\ IF d.thrown # NoError
             THEN pc' = "done" /\ result' = Threw(d.thrown)
             ELSE pc' = "read_next" /\ result' = result
  /\ UNCHANGED <<mode, maxBits, data, enc, compressed, input>>

\* decompress, lines 291-294
ReadAfterClear ==
  /\ pc = "read_after_clear"
  /\ LET d == GetNextCode(dec, input) IN
     IF d.thrown # NoError
     THEN dec' = d /\ pc' = "done" /\ result' = Threw(d.thrown)
     ELSE IF d.code = EOI_CODE
     THEN dec' = d /\ pc' = "done" /\ result' = Returned(d.output)
     ELSE LET d2 == DecodeAfterClear(d) IN
          /\ dec' = d2
          /\ IF d2.thrown # NoError
             THEN pc' = "done" /\ result' = Threw(d2.thrown)
             ELSE pc' = "read_next" /\ result' = result
  /\ UNCHANGED <<mode, maxBits, data, enc, compressed, input>>

\* decompress, line 308
ReadNext ==
  /\ pc = "read_next"
  /\ LET d == GetNextCode(dec, input) IN
     /\ dec' = d
     /\ IF d.thrown # NoError
        THEN pc' = "done" /\ result' = Threw(d.thrown)
        ELSE pc' = "loop" /\ result' = result
  /\ UNCHANGED <<mode, maxBits, data, enc, compressed, input>>

Next ==
  \/ CompressStart
  \/ CompressStep
  \/ CompressFinish
  \/ Handoff
  \/ DecompressStart
  \/ ReadFirst
  \/ LoopStep
  \/ ReadAfterClear
  \/ ReadNext

Spec == Init /\ [][Next]_vars

(* ---------------- vocabulary of the properties ---------------- *)
ReadPcs == {"read_first", "read_after_clear", "read_next"}
DecodePcs == ReadPcs \cup {"loop", "done"}
\* compress has returned
Compressed == mode = "roundtrip" /\ pc \notin {"compress", "compress_loop"}
\* decompress runs (or ran) on the whole output of compress
WholeOutput == Compressed /\ pc \in DecodePcs /\ input = compressed
\* every write(value, bitCount) compress made, in order
EncLog == enc.bitWriter.log
\* the sum of the widths of the codes written
TotalBits ==
  LET ws == {EncLog[j][2] : j \in DOMAIN EncLog}
      Count(w) == Cardinality({j \in DOMAIN EncLog : EncLog[j][2] = w})
      RECURSIVE Sum(_)
      Sum(S) == IF S = {} THEN 0 ELSE LET w == CHOOSE x \in S : TRUE IN w * Count(w) + Sum(S \ {w})
  IN Sum(ws)
\* bits of the input the reader has not handed out yet
BitsLeft == dec.bitReader.bitsInBuffer + 8 * (Len(input) - dec.bitReader.byteIndex)
\* the first 9 bits of a buffer of at least two bytes, MSB-first
FirstNine(bytes) == 2 * bytes[1] + bytes[2] \div 128
EmptyCompressed == <<128, 64, 64>>
KnownCompressed == <<128, 16, 96, 80, 34, 20, 22, 2>>
\* the encoder's dictionary in its n-th epoch (n-th CLEAR_CODE written)
EncDict(n) == IF n >= 1 /\ n <= Len(enc.closed) THEN enc.closed[n] ELSE enc.table

(* ---------------- C1 ---------------- *)
\* C1: round trip - decompress of the whole output of compress returns
\* without error and returns exactly the bytes compress was given.
C1_RoundTrip ==
  (WholeOutput /\ pc = "done") => result = Returned(data)

\* the round trip does succeed on inputs away from the width boundary
C1_SomeRoundTrip ==
  WholeOutput /\ pc = "done" /\ data = KnownVector /\ result = Returned(data)

(* ---------------- C2 ---------------- *)
\* C2: for every maxBits, compress of the empty input returns 0x80 0x40 0x40,
\* and decompress of 0x80 0x40 0x40 returns the empty sequence.
C2_EmptyInput ==
  /\ (Compressed /\ data = <<>>) => compressed = EmptyCompressed
  /\ (pc = "done" /\ input = EmptyCompressed) => result = Returned(<<>>)

C2_Witness ==
  /\ mode = "roundtrip" /\ data = <<>> /\ maxBits = MaxBitsHi
  /\ pc = "done" /\ input = EmptyCompressed /\ result = Returned(<<>>)

(* ---------------- C3 ---------------- *)
\* C3: with the default maxBits, compress of the known vector writes CLEAR,
\* 65, 258, 258, 66, 261, EOI at 9 bits each, its output is the known 8
\* bytes, and decompress of those 8 bytes returns the known vector.
C3_KnownVector ==
  /\ (Compressed /\ data = KnownVector /\ maxBits = DefaultMaxBits) =>
       /\ EncLog = << <<CLEAR_CODE, 9>>, <<65, 9>>, <<258, 9>>, <<258, 9>>,
                      <<66, 9>>, <<261, 9>>, <<EOI_CODE, 9>> >>
       /\ compressed = KnownCompressed
  /\ (pc = "done" /\ input = KnownCompressed /\ maxBits = DefaultMaxBits) =>
       result = Returned(KnownVector)

C3_Witness ==
  /\ mode = "roundtrip" /\ data = KnownVector /\ maxBits = DefaultMaxBits
  /\ pc = "done" /\ input = KnownCompressed /\ result = Returned(KnownVector)

(* ---------------- C4 ---------------- *)
\* C4: a buffer of at least 9 bits whose first 9-bit code is not 256 makes
\* decompress fail with the missing-CLEAR LzwError and return nothing.
C4_LeadingClear ==
  (pc = "done" /\ Len(input) >= 2 /\ FirstNine(input) # CLEAR_CODE) =>
     result = Threw(LzwError(MissingClear))

C4_Witness ==
  pc = "done" /\ input = <<129, 64, 64>> /\ result = Threw(LzwError(MissingClear))

(* ---------------- C5 ---------------- *)
\* C5: whenever decompress is about to read a code and fewer bits than
\* codeSize remain, it fails with LzwError 'Unexpected end of input' and
\* returns nothing; so it ends that way on the empty buffer, on 0x80 0x40 and
\* on every prefix of a compress output that stops before the last EOI bit.
C5_TruncatedInput ==
  \/ input = <<>>
  \/ input = <<128, 64>>
  \/ Compressed /\ 8 * Len(input) < TotalBits

C5_StepRule ==
  (pc \in ReadPcs /\ BitsLeft < dec.codeSize) =>
     (pc' = "done" /\ result' = Threw(LzwError(UnexpectedEnd)))

C6_Ends ==
  /\ pc = "done" => result.kind \in {"returned", "LzwError"}
  /\ pc \in {"compress", "compress_loop", "compress_returned", "decompress"} \cup DecodePcs
  /\ pc \in DecodePcs => InitialCodeSize * dec.reads <= 8 * Len(input)

\* a variant: no step of decompress leaves it unchanged or raises it
C6_Measure == BitsLeft + (CASE pc = "loop" -> 2 [] pc \in ReadPcs -> 1 [] OTHER -> 0)

C6_StepRule ==
  /\ pc \in DecodePcs => (C6_Measure' < C6_Measure /\ C6_Measure' >= 0)
  /\ (pc = "loop" /\ dec.code \notin {CLEAR_CODE, EOI_CODE} /\ dec.oldCode = NoOldCode) =>
       (pc' = "done" /\ result'.kind = "LzwError")
  /\ (pc = "read_after_clear" /\ dec'.reads = dec.reads + 1
        /\ (dec'.code = CLEAR_CODE \/ dec'.code >= FirstCode)) =>
       (pc' = "done" /\ result' = Threw(LzwError(NotFound(dec'.code))))

C6_ErrorKind == []C6_Ends /\ [][C6_StepRule]_vars

\* CLEAR followed by CLEAR, rejected with the not-found LzwError
C6_Witness ==
  /\ pc = "done" /\ mode = "stream" /\ dec.reads = 2 /\ dec.code = CLEAR_CODE
  /\ result = Threw(LzwError(NotFound(CLEAR_CODE)))

\* the decoder's own table-full reset leaves oldCode dangling: LzwError as well
C6_WitnessDangling ==
  /\ pc = "done" /\ mode = "stream" /\ dec.selfResets = 1
  /\ result = Threw(LzwError(NotFound(300)))

(* ---------------- C7 ---------------- *)
\* C7: decompressing the whole output of compress, the width at which the
\* decoder reads its n-th code is the width at which the encoder wrote its
\* n-th code, for every n.
C7_WidthSync ==
  (WholeOutput /\ pc \in ReadPcs /\ dec.reads < Len(EncLog)) =>
     dec.codeSize = EncLog[dec.reads + 1][2]

\* the synchronisation does hold across a width change inside the stream
C7_SyncAcrossGrowth ==
  /\ WholeOutput /\ pc \in ReadPcs /\ dec.reads < Len(EncLog)
  /\ dec.codeSize = InitialCodeSize + 1 /\ EncLog[dec.reads + 1][2] = InitialCodeSize + 1

(* ---------------- C8 ---------------- *)
\* C8: toData appends a padding byte only when a partial byte remains, so
\* the output of compress is exactly ceil(T / 8) bytes long, T being the sum
\* of the widths of all codes written.
C8_OutputLength ==
  Compressed =>
    /\ Len(compressed) = (TotalBits + 7) \div 8
    /\ Len(compressed) = Len(enc.bitWriter.buffer)
                           + (IF enc.bitWriter.bitsFilled \in 1..7 THEN 1 ELSE 0)

(* ---------------- C9 ---------------- *)
\* C9: in compress 258 <= nextCode <= 2^maxBits, 9 <= codeSize <= maxBits and
\* every code written fits its width; a mid-stream CLEAR is written exactly
\* on a miss with nextCode = 2^maxBits: the match code, then CLEAR at the same
\* width, nothing inserted, the dictionary back to the 256 single bytes with
\* codeSize 9 and nextCode 258, and the current byte starting the next match.
C9_Bounds ==
  mode = "roundtrip" =>
    /\ FirstCode <= enc.nextCode /\ enc.nextCode <= 2^maxBits
    /\ InitialCodeSize <= enc.codeSize /\ enc.codeSize <= maxBits
    /\ \A j \in DOMAIN EncLog : 0 <= EncLog[j][1] /\ EncLog[j][1] < 2^(EncLog[j][2])

C9_ResetRule ==
  pc = "compress_loop" =>
    LET miss == enc.i < Len(data) /\ ~TableHas(enc.table, Append(enc.omega, data[enc.i + 1]))
        full == enc.nextCode = 2^maxBits
        new == SubSeq(EncLog', Len(EncLog) + 1, Len(EncLog'))
        clear == \E j \in DOMAIN new : new[j][1] = CLEAR_CODE
    IN /\ clear <=> (miss /\ full)
       /\ (miss /\ full) =>
            /\ new = << <<enc.table[enc.omega], enc.codeSize>>, <<CLEAR_CODE, enc.codeSize>> >>
            /\ enc'.table = InitialStringTable
            /\ enc'.codeSize = InitialCodeSize
            /\ enc'.nextCode = FirstCode
            /\ enc'.omega = <<data[enc.i + 1]>>

C9_ForcedReset == []C9_Bounds /\ [][C9_ResetRule]_vars

\* a reset has happened and compress has gone on to insert a new entry
C9_Witness ==
  /\ pc = "compress_loop" /\ Len(enc.closed) = 1
  /\ enc.nextCode = FirstCode + 1 /\ enc.codeSize = InitialCodeSize

(* ---------------- C10 ---------------- *)
\* C10: decompressing the whole output of compress, every code >= 258 in the
\* decoder's table maps to the sequence the encoder mapped to it in the same
\* epoch; a data code absent from the table when read is the decoder's
\* nextCode; and the decoder never resets inside addStringToTable.
C10_LockStep ==
  WholeOutput =>
    /\ \A c \in DOMAIN dec.table :
         c >= FirstCode => TableGet(EncDict(dec.epoch), dec.table[c]) = c
    /\ (pc = "loop" /\ dec.code \notin {CLEAR_CODE, EOI_CODE} /\ dec.code \notin DOMAIN dec.table)
         => dec.code = dec.nextCode
    /\ dec.selfResets = 0

\* the deferred case does occur and is decoded in lock-step
C10_DeferredSeen ==
  /\ WholeOutput /\ pc = "loop" /\ dec.code = dec.nextCode
  /\ dec.code \notin DOMAIN dec.table

====
